---------------------------- MODULE Spec2Model ----------------------------
(***************************************************************************)
(* Image-annotation backend: Express routes of backend/server.ts over the  *)
(* three SQLite tables of backend/db.ts and the uploads directory.         *)
(*                                                                         *)
(* Every request handler is a chain of callbacks; each callback is one     *)
(* atomic step (one SQL statement or one file-system call), and steps of   *)
(* different requests interleave freely.  Strings are sequences of         *)
(* one-character strings.  JSON numbers are records n/d so that zero,      *)
(* negative and fractional ids are distinct values.                        *)
(***************************************************************************)
EXTENDS Integers, Sequences, FiniteSets, TLC

\* ------------------------------------------------------------------ bounds
\* Concurrent request slots, total requests served, clock ticks.
MaxConcurrent == 2
MaxRequests == 3
MaxClock == 2

Procs == 1..MaxConcurrent

\* ------------------------------------------------------- program constants
MaxLabelLen == 50
FileSizeLimit == 5242880

\* ----------------------------------------------------------------- strings
Digits == <<"0", "1", "2", "3", "4", "5", "6", "7", "8", "9">>

IsDigit(c) == \E i \in 1..10 : Digits[i] = c

DigitVal(c) == (CHOOSE i \in 1..10 : Digits[i] = c) - 1

\* Decimal text of a natural number (template literal / GROUP_CONCAT of an id).
RECURSIVE ToStr(_)
ToStr(n) == IF n < 10 THEN <<Digits[n + 1]>>
            ELSE ToStr(n \div 10) \o <<Digits[(n % 10) + 1]>>

\* Array.prototype.join / GROUP_CONCAT(x, sep) over the non-null values.
RECURSIVE Join(_, _)
Join(ss, sep) == IF ss = <<>> THEN <<>>
                 ELSE IF Len(ss) = 1 THEN Head(ss)
                 ELSE Head(ss) \o sep \o Join(Tail(ss), sep)

StartsWith(s, pre) == /\ Len(s) >= Len(pre)
                      /\ SubSeq(s, 1, Len(pre)) = pre

\* String.prototype.split(sep) for a non-empty separator: leftmost matches.
RECURSIVE SplitFrom(_, _, _)
SplitFrom(s, sep, cur) ==
    IF s = <<>> THEN <<cur>>
    ELSE IF StartsWith(s, sep)
         THEN <<cur>> \o SplitFrom(SubSeq(s, Len(sep) + 1, Len(s)), sep, <<>>)
         ELSE SplitFrom(Tail(s), sep, Append(cur, Head(s)))

Split(s, sep) == SplitFrom(s, sep, <<>>)

\* Array.prototype.pop() of a non-empty array.
Pop(arr) == arr[Len(arr)]

\* --------------------------------------------------------- JSON / JS values
Undefined == [t |-> "undefined", n |-> 0, d |-> 1]
NaNValue == [t |-> "NaN", n |-> 0, d |-> 1]
\* A non-empty string that is not the text of a number.
TextValue == [t |-> "string", n |-> 0, d |-> 1]
Frac(n, d) == [t |-> "number", n |-> n, d |-> d]
Num(n) == Frac(n, 1)

\* JS truthiness of undefined / NaN / a number / a non-empty string.
Truthy(v) == (v.t = "number" /\ v.n # 0) \/ v.t = "string"

\* Global isNaN(v).
IsNaN(v) == v.t # "number"

\* parseInt(s, 10): optional sign, then the leading run of decimal digits.
RECURSIVE ParseDigits(_, _)
ParseDigits(s, acc) ==
    IF s = <<>> \/ ~IsDigit(Head(s)) THEN acc
    ELSE ParseDigits(Tail(s), 10 * acc + DigitVal(Head(s)))

ParseInt(s) ==
    LET neg == s # <<>> /\ Head(s) = "-"
        body == IF neg THEN Tail(s) ELSE s
    IN IF body = <<>> \/ ~IsDigit(Head(body)) THEN NaNValue
       ELSE Num((IF neg THEN -1 ELSE 1) * ParseDigits(body, 0))


\* ------------------------------------------------------------ request data
Str_image == <<"i", "m", "a", "g", "e", "-">>
UploadDir == <<"u", "p", "l", "o", "a", "d", "s", "/">>
Delimiter == <<",", " ">>

Name_cat == <<"c", "a", "t">>
Name_dog == <<"d", "o", "g">>
Name_car == <<"c", "a", "r">>
Name_ab == <<"a", ",", " ", "b">>
Name_empty == <<>>
Name_long == [i \in 1..(MaxLabelLen + 1) |-> "x"]

allowedTypes == {"image/jpeg", "image/png", "image/jpg"}

NoFile == [present |-> FALSE, mimetype |-> "", originalname |-> <<>>, size |-> 0]
File(mt, name, size) ==
    [present |-> TRUE, mimetype |-> mt, originalname |-> name, size |-> size]

\* Multipart bodies offered to POST /api/images.
UploadInputs ==
    { NoFile,
      File("image/jpeg", <<"a", ".", "j", "p", "g">>, 1),
      File("text/plain", <<"n", ".", "t", "x", "t">>, 1) }

\* JSON bodies offered to POST /api/annotations.
AttachInputs ==
    { [imageId |-> Num(1), labelName |-> Name_cat],
      [imageId |-> Num(1), labelName |-> Name_ab],
      [imageId |-> Num(2), labelName |-> Name_ab],
      [imageId |-> Num(0), labelName |-> Name_cat],
      [imageId |-> Undefined, labelName |-> Name_cat],
      [imageId |-> Num(-1), labelName |-> Name_cat],
      [imageId |-> Frac(3, 2), labelName |-> Name_cat],
      [imageId |-> Num(1), labelName |-> Name_empty],
      [imageId |-> Num(1), labelName |-> Name_long] }

\* JSON bodies offered to DELETE /api/annotations.
DetachInputs ==
    { [imageId |-> Num(1), labelId |-> Num(1)],
      [imageId |-> Num(0), labelId |-> Num(1)],
      [imageId |-> Num(1), labelId |-> Undefined],
      [imageId |-> TextValue, labelId |-> Num(1)] }

\* Path parameters offered to DELETE /api/images/:id.
DeleteInputs == { <<"1">>, <<"x">> }

\* ------------------------------------------------------------------- state
VARIABLES
    images,        \* table images: set of [id, filename, file_path]
    labels,        \* table labels: set of [id, name]
    annotations,   \* table annotations in rowid order: [id, image_id, label_id]
    seqImages,     \* AUTOINCREMENT high-water marks (sqlite_sequence)
    seqLabels,
    seqAnnotations,
    files,         \* uploads directory: set of [path, blob], one per path
    now,           \* the latest reading of Date.now()
    pc,            \* per request slot: the callback that runs next
    req,           \* per request slot: the request being served
    loc,           \* per request slot: closure variables of the handler
    last,          \* the request answered most recently, its locals and response
    started,       \* number of requests received so far
    uploadedOk,    \* history: uploads answered 201
    deletedOk      \* history: image deletions answered 200

store == <<images, labels, annotations, seqImages, seqLabels, seqAnnotations>>
vars == <<images, labels, annotations, seqImages, seqLabels, seqAnnotations,
          files, now, pc, req, loc, last, started, uploadedOk, deletedOk>>

NoReq == [op |-> "none", file |-> NoFile, imageId |-> Undefined,
          labelName |-> <<>>, labelId |-> Undefined, id |-> <<>>]

NoLoc == [imageId |-> Undefined, label_id |-> 0, lastID |-> 0, changes |-> 0,
          filename |-> <<>>, file_path |-> <<>>, blob |-> 0,
          found |-> FALSE, unlinkErr |-> FALSE]

NullText == [null |-> TRUE, s |-> <<>>]
Text(s) == [null |-> FALSE, s |-> s]

NoResp == [status |-> 0, message |-> "", imageId |-> 0, filename |-> <<>>,
           rows |-> {}]
Reply(status, message) == [NoResp EXCEPT !.status = status, !.message = message]

\* db.serialize in db.ts: three empty tables, then the seeded labels.
Init ==
    /\ images = {}
    /\ labels = { [id |-> 1, name |-> Name_cat],
                  [id |-> 2, name |-> Name_dog],
                  [id |-> 3, name |-> Name_car] }
    /\ annotations = <<>>
    /\ seqImages = 0
    /\ seqLabels = 3
    /\ seqAnnotations = 0
    /\ files = {}
    /\ now = 1
    /\ pc = [p \in Procs |-> "idle"]
    /\ req = [p \in Procs |-> NoReq]
    /\ loc = [p \in Procs |-> NoLoc]
    /\ last = [req |-> NoReq, loc |-> NoLoc, resp |-> NoResp]
    /\ started = 0
    /\ uploadedOk = {}
    /\ deletedOk = {}

\* ------------------------------------------------------------ the store
\* SELECT id FROM labels WHERE name = ?
SelectLabel(name) == { l \in labels : l.name = name }

\* Mutant: the labels table without UNIQUE on name.
LabelNameTaken_NoUnique(name) == FALSE

\* labels.name UNIQUE: an INSERT of a name already present fails.
LabelNameTaken(name) == \E l \in labels : l.name = name

\* Mutant: the annotations table without UNIQUE(image_id, label_id).
PairTaken_NoUnique(image_id, label_id) == FALSE

\* annotations UNIQUE(image_id, label_id).
PairTaken(image_id, label_id) ==
    \E i \in 1..Len(annotations) :
        /\ annotations[i].image_id = image_id
        /\ annotations[i].label_id = label_id

\* images.filename UNIQUE.
FilenameTaken(filename) == \E i \in images : i.filename = filename

\* The foreign keys of annotations are declared in the schema, but the
\* connection never runs PRAGMA foreign_keys = ON, so SQLite enforces neither
\* the references nor ON DELETE CASCADE.
ForeignKeysEnforced == FALSE

ForeignKeyViolation(image_id, label_id) ==
    /\ ForeignKeysEnforced
    /\ \/ ~\E i \in images : Num(i.id) = image_id
       \/ ~\E l \in labels : l.id = label_id

\* SELECT file_path FROM images WHERE id = ?
SelectImage(id) == { i \in images : Num(i.id) = id }

\* DELETE FROM annotations WHERE image_id = ?
DeleteAnnotationsOf(anns, image_id) ==
    SelectSeq(anns, LAMBDA a : a.image_id # image_id)

\* DELETE FROM annotations WHERE image_id = ? AND label_id = ?
DeletePair(anns, image_id, label_id) ==
    SelectSeq(anns, LAMBDA a : ~(a.image_id = image_id /\ Num(a.label_id) = label_id))

\* Mutant: step 4 deletes nothing.
DeleteImageRow_Keep(imgs, id) == imgs

\* DELETE FROM images WHERE id = ?
DeleteImageRow(imgs, id) == { i \in imgs : Num(i.id) # id }

\* What ON DELETE CASCADE leaves of annotations when image `id` is deleted.
Cascade(anns, id) ==
    IF ForeignKeysEnforced THEN DeleteAnnotationsOf(anns, id) ELSE anns

\* INSERT INTO annotations: the row appended with the next AUTOINCREMENT id.
AppendAnnotation(image_id, label_id) ==
    Append(annotations, [id |-> seqAnnotations + 1,
                         image_id |-> image_id,
                         label_id |-> label_id])

\* ------------------------------------------------------------ file system
FileAt(path) == { f \in files : f.path = path }

WriteFile(path, blob) ==
    { f \in files : f.path # path } \cup { [path |-> path, blob |-> blob] }

RemoveFile(path) == { f \in files : f.path # path }

\* ------------------------------------------------------------------- clock
\* Date.now(): a reading is never below the reading before it.
ClockReadings == now..MaxClock

\* The next request is served in the first free slot.
Accept(p) ==
    /\ pc[p] = "idle"
    /\ \A q \in Procs : q < p => pc[q] # "idle"
    /\ started < MaxRequests
    /\ started' = started + 1

\* The handler of request q continues at callback `at` with locals l.
Continue(p, at, q, l) ==
    /\ pc' = [pc EXCEPT ![p] = at]
    /\ req' = [req EXCEPT ![p] = q]
    /\ loc' = [loc EXCEPT ![p] = l]
    /\ UNCHANGED last

\* The handler of request q answers r and ends; the slot is free again.
Finish(p, q, l, r) ==
    /\ pc' = [pc EXCEPT ![p] = "idle"]
    /\ req' = [req EXCEPT ![p] = NoReq]
    /\ loc' = [loc EXCEPT ![p] = NoLoc]
    /\ last' = [req |-> q, loc |-> l, resp |-> r]

\* ------------------------------------------------------ POST /api/images
\* storage.filename: `image-${Date.now()}.${ext}`
FileExt(originalname) == Pop(Split(originalname, <<".">>))

UniqueName(originalname, time) ==
    Str_image \o ToStr(time) \o <<".">> \o FileExt(originalname)

\* Mutant: a file filter that accepts every media type.
FilterAccepts_All(file) == TRUE

\* fileFilter
FilterAccepts(file) == file.mimetype \in allowedTypes

\* multer: the file filter, then destination and filename, all in one tick.
\* A rejected or missing file never reaches the disk.  An error passed to
\* next() is answered by Express' default error handler (500).
UploadStart(p) ==
    \E f \in UploadInputs, time \in ClockReadings :
        LET q == [NoReq EXCEPT !.op = "Upload", !.file = f]
            name == UniqueName(f.originalname, time)
        IN /\ Accept(p)
           /\ IF ~f.present
              THEN /\ Finish(p, q, NoLoc, Reply(400, "No image file uploaded!"))
                   /\ UNCHANGED now
              ELSE IF ~FilterAccepts(f)
              THEN /\ Finish(p, q, NoLoc,
                             Reply(500, "Only JPG/PNG image files are allowed!"))
                   /\ UNCHANGED now
              ELSE /\ now' = time
                   /\ Continue(p, "up_write", q,
                               [NoLoc EXCEPT !.filename = name,
                                             !.file_path = UploadDir \o name,
                                             !.blob = started + 1])
           /\ UNCHANGED <<store, files, uploadedOk, deletedOk>>

\* diskStorage writes the stream to the path; a stream over the size limit
\* is aborted and multer removes the file it has written.
UploadWrite(p) ==
    /\ pc[p] = "up_write"
    /\ IF req[p].file.size > FileSizeLimit
       THEN /\ files' = RemoveFile(loc[p].file_path)
            /\ Finish(p, req[p], loc[p], Reply(500, "File too large"))
       ELSE /\ files' = WriteFile(loc[p].file_path, loc[p].blob)
            /\ Continue(p, "up_insert", req[p], loc[p])
    /\ UNCHANGED <<store, now, started, uploadedOk, deletedOk>>

\* INSERT INTO images (filename, file_path) VALUES (?, ?)
UploadInsert(p) ==
    /\ pc[p] = "up_insert"
    /\ IF FilenameTaken(loc[p].filename)
       THEN /\ Finish(p, req[p], loc[p],
                      Reply(400, "UNIQUE constraint failed: images.filename"))
            /\ UNCHANGED <<images, seqImages, uploadedOk>>
       ELSE LET id == seqImages + 1
            IN /\ images' = images \cup { [id |-> id,
                                           filename |-> loc[p].filename,
                                           file_path |-> loc[p].file_path] }
               /\ seqImages' = id
               /\ Finish(p, req[p], [loc[p] EXCEPT !.lastID = id],
                         [Reply(201, "") EXCEPT !.imageId = id,
                                                !.filename = loc[p].filename])
               /\ uploadedOk' = uploadedOk \cup { [imageId |-> id,
                                                   filename |-> loc[p].filename,
                                                   file_path |-> loc[p].file_path,
                                                   blob |-> loc[p].blob] }
    /\ UNCHANGED <<labels, annotations, seqLabels, seqAnnotations, files, now,
                   started, deletedOk>>

\* --------------------------------------------------- POST /api/annotations
\* if (!imageId || !labelName) ... if (labelName.length > 50) ...
AttachRejects(imageId, labelName) ==
    \/ ~Truthy(imageId)
    \/ labelName = <<>>
    \/ Len(labelName) > MaxLabelLen

AttachRejectMessage(imageId, labelName) ==
    IF ~Truthy(imageId) \/ labelName = <<>>
    THEN "Image ID and label name are required!"
    ELSE "Label name cannot exceed 50 characters!"

\* The handler: validation, then step 1, SELECT id FROM labels WHERE name = ?
\* (the request is taken as arriving when its first statement runs).
AttachLabel(p) ==
    \E b \in AttachInputs :
        LET q == [NoReq EXCEPT !.op = "AttachLabel", !.imageId = b.imageId,
                               !.labelName = b.labelName]
            l == [NoLoc EXCEPT !.imageId = b.imageId]
            found == SelectLabel(b.labelName)
        IN /\ Accept(p)
           /\ IF AttachRejects(b.imageId, b.labelName)
              THEN Finish(p, q, l,
                          Reply(400, AttachRejectMessage(b.imageId, b.labelName)))
              ELSE IF found # {}
              THEN Continue(p, "att_link", q,
                            [l EXCEPT !.found = TRUE,
                                      !.label_id = (CHOOSE x \in found : TRUE).id])
              ELSE Continue(p, "att_create", q, [l EXCEPT !.found = FALSE])
           /\ UNCHANGED <<store, files, now, uploadedOk, deletedOk>>

\* Label exists: INSERT OR IGNORE INTO annotations (image_id, label_id).
\* OR IGNORE skips a row that breaks UNIQUE; a foreign key failure still errors.
AttachLinkExisting(p) ==
    /\ pc[p] = "att_link"
    /\ IF ForeignKeyViolation(loc[p].imageId, loc[p].label_id)
       THEN /\ Finish(p, req[p], loc[p], Reply(400, "FOREIGN KEY constraint failed"))
            /\ UNCHANGED <<annotations, seqAnnotations>>
       ELSE IF PairTaken(loc[p].imageId, loc[p].label_id)
       THEN /\ Finish(p, req[p], [loc[p] EXCEPT !.changes = 0],
                      Reply(200, "Label added (or already linked to the image)!"))
            /\ UNCHANGED <<annotations, seqAnnotations>>
       ELSE /\ annotations' = AppendAnnotation(loc[p].imageId, loc[p].label_id)
            /\ seqAnnotations' = seqAnnotations + 1
            /\ Finish(p, req[p], [loc[p] EXCEPT !.changes = 1],
                      Reply(200, "Label added (or already linked to the image)!"))
    /\ UNCHANGED <<images, labels, seqImages, seqLabels, files, now,
                   started, uploadedOk, deletedOk>>

\* Label missing at the lookup: INSERT INTO labels (name) VALUES (?)
AttachCreate(p) ==
    /\ pc[p] = "att_create"
    /\ IF LabelNameTaken(req[p].labelName)
       THEN /\ Finish(p, req[p], loc[p],
                      Reply(400, "UNIQUE constraint failed: labels.name"))
            /\ UNCHANGED <<labels, seqLabels>>
       ELSE /\ labels' = labels \cup { [id |-> seqLabels + 1,
                                        name |-> req[p].labelName] }
            /\ seqLabels' = seqLabels + 1
            /\ Continue(p, "att_linknew", req[p],
                        [loc[p] EXCEPT !.lastID = seqLabels + 1])
    /\ UNCHANGED <<images, annotations, seqImages, seqAnnotations, files, now,
                   started, uploadedOk, deletedOk>>

\* INSERT INTO annotations (image_id, label_id) VALUES (?, this.lastID)
AttachLinkNew(p) ==
    /\ pc[p] = "att_linknew"
    /\ IF ForeignKeyViolation(loc[p].imageId, loc[p].lastID)
       THEN /\ Finish(p, req[p], loc[p], Reply(400, "FOREIGN KEY constraint failed"))
            /\ UNCHANGED <<annotations, seqAnnotations>>
       ELSE IF PairTaken(loc[p].imageId, loc[p].lastID)
       THEN /\ Finish(p, req[p], loc[p],
                      Reply(400, "UNIQUE constraint failed: annotations"))
            /\ UNCHANGED <<annotations, seqAnnotations>>
       ELSE /\ annotations' = AppendAnnotation(loc[p].imageId, loc[p].lastID)
            /\ seqAnnotations' = seqAnnotations + 1
            /\ Finish(p, req[p], [loc[p] EXCEPT !.changes = 1],
                      Reply(200, "New label created and linked to the image!"))
    /\ UNCHANGED <<images, labels, seqImages, seqLabels, files, now,
                   started, uploadedOk, deletedOk>>

\* ------------------------------------------------- DELETE /api/annotations
\* if (!imageId || !labelId || isNaN(imageId) || isNaN(labelId))
DetachRejects(imageId, labelId) ==
    \/ ~Truthy(imageId)
    \/ ~Truthy(labelId)
    \/ IsNaN(imageId)
    \/ IsNaN(labelId)

\* Mutant: a DELETE that matched no row is reported as an error.
DetachStatus_ErrorIfNone(changes) == IF changes = 0 THEN 404 ELSE 200

\* The DELETE answers success whatever the number of rows it removed.
DetachStatus(changes) == 200

\* The handler: validation, then
\* DELETE FROM annotations WHERE image_id = ? AND label_id = ?
DetachLabel(p) ==
    \E b \in DetachInputs :
        LET q == [NoReq EXCEPT !.op = "DetachLabel", !.imageId = b.imageId,
                               !.labelId = b.labelId]
            l == [NoLoc EXCEPT !.imageId = b.imageId]
            after == DeletePair(annotations, b.imageId, b.labelId)
            changes == Len(annotations) - Len(after)
        IN /\ Accept(p)
           /\ IF DetachRejects(b.imageId, b.labelId)
              THEN /\ Finish(p, q, l,
                        Reply(400, "Valid Image ID and Label ID (numbers) are required!"))
                   /\ UNCHANGED annotations
              ELSE /\ annotations' = after
                   /\ Finish(p, q, [l EXCEPT !.changes = changes],
                             Reply(DetachStatus(changes),
                                   "Label removed from the image successfully!"))
           /\ UNCHANGED <<images, labels, seqImages, seqLabels, seqAnnotations,
                          files, now, uploadedOk, deletedOk>>

\* ------------------------------------------------- DELETE /api/images/:id
\* Mutant: the handler without the `if (!image)` check.
AfterLookup_NoCheck(found) == "del_unlink"

\* if (!image) return 404; otherwise go on to fs.unlink.
AfterLookup(found) == IF found THEN "del_unlink" ELSE "idle"

\* The handler: parseInt and its check, then step 1,
\* SELECT file_path FROM images WHERE id = ?
DeleteImage(p) ==
    \E s \in DeleteInputs :
        LET imageId == ParseInt(s)
            q == [NoReq EXCEPT !.op = "DeleteImage", !.id = s]
            rows == SelectImage(imageId)
            l == [NoLoc EXCEPT !.imageId = imageId,
                               !.found = (rows # {}),
                               !.file_path =
                                   IF rows # {} THEN (CHOOSE i \in rows : TRUE).file_path
                                   ELSE <<>>]
        IN /\ Accept(p)
           /\ IF IsNaN(imageId)
              THEN Finish(p, q, [NoLoc EXCEPT !.imageId = imageId],
                          Reply(400, "Invalid image ID (must be a number)!"))
              ELSE IF AfterLookup(rows # {}) = "idle"
              THEN Finish(p, q, l, Reply(404, "Image not found in the database!"))
              ELSE Continue(p, AfterLookup(rows # {}), q, l)
           /\ UNCHANGED <<store, files, now, uploadedOk, deletedOk>>

\* Mutant: a failed fs.unlink ends the request.
AfterUnlink_Abort(err) == IF err THEN "idle" ELSE "del_anns"

\* if (err) console.error(...): the callback goes on to step 3 either way.
AfterUnlink(err) == "del_anns"

\* Step 2: fs.unlink(image.file_path).  It fails when the path is absent and
\* may fail for any other reason the file system has (EPERM, EBUSY, ...).
DeleteUnlink(p) ==
    /\ pc[p] = "del_unlink"
    /\ \E err \in BOOLEAN :
        /\ FileAt(loc[p].file_path) = {} => err
        /\ files' = IF err THEN files ELSE RemoveFile(loc[p].file_path)
        /\ IF AfterUnlink(err) = "idle"
           THEN Finish(p, req[p], [loc[p] EXCEPT !.unlinkErr = err],
                       Reply(500, "File deletion failed"))
           ELSE Continue(p, AfterUnlink(err), req[p], [loc[p] EXCEPT !.unlinkErr = err])
    /\ UNCHANGED <<store, now, started, uploadedOk, deletedOk>>

\* Step 3: DELETE FROM annotations WHERE image_id = ?
DeleteAnnotations(p) ==
    /\ pc[p] = "del_anns"
    /\ annotations' = DeleteAnnotationsOf(annotations, loc[p].imageId)
    /\ Continue(p, "del_image", req[p], loc[p])
    /\ UNCHANGED <<images, labels, seqImages, seqLabels, seqAnnotations, files,
                   now, started, uploadedOk, deletedOk>>

\* Step 4: DELETE FROM images WHERE id = ?, then the success response.
DeleteRow(p) ==
    /\ pc[p] = "del_image"
    /\ images' = DeleteImageRow(images, loc[p].imageId)
    /\ annotations' = Cascade(annotations, loc[p].imageId)
    /\ Finish(p, req[p], loc[p],
              Reply(200, "Image deleted successfully (including file and annotations)!"))
    /\ deletedOk' = deletedOk \cup
          { [imageId |-> u.imageId, file_path |-> u.file_path, blob |-> u.blob,
             unlinked |-> ~loc[p].unlinkErr] :
            u \in { v \in uploadedOk : Num(v.imageId) = loc[p].imageId } }
    /\ UNCHANGED <<labels, seqImages, seqLabels, seqAnnotations, files, now,
                   started, uploadedOk>>

\* ------------------------------------------------------- GET /api/images
\* The annotation rows of one image, in rowid order, joined to their label.
JoinedLabels(id) ==
    LET mine == SelectSeq(annotations, LAMBDA a : a.image_id = Num(id))
        hit == SelectSeq(mine, LAMBDA a : \E l \in labels : l.id = a.label_id)
    IN [k \in 1..Len(hit) |-> CHOOSE l \in labels : l.id = hit[k].label_id]

\* GROUP_CONCAT(x, ', '): NULL for a group with no non-null value.
GroupConcat(values) ==
    IF values = <<>> THEN NullText ELSE Text(Join(values, Delimiter))

\* SELECT ... GROUP_CONCAT(l.name, ', '), GROUP_CONCAT(l.id, ', ')
\*   FROM images i LEFT JOIN annotations a ... LEFT JOIN labels l ... GROUP BY i.id
ListImagesWithLabels ==
    { [id |-> i.id, filename |-> i.filename, file_path |-> i.file_path,
       labels |-> GroupConcat([k \in 1..Len(JoinedLabels(i.id)) |->
                                  JoinedLabels(i.id)[k].name]),
       labelIds |-> GroupConcat([k \in 1..Len(JoinedLabels(i.id)) |->
                                    ToStr(JoinedLabels(i.id)[k].id)])] :
      i \in images }

\* The handler: db.all(query), answered with the rows.
ListImages(p) ==
    /\ Accept(p)
    /\ Finish(p, [NoReq EXCEPT !.op = "ListImages"], NoLoc,
              [Reply(200, "") EXCEPT !.rows = ListImagesWithLabels])
    /\ UNCHANGED <<store, files, now, uploadedOk, deletedOk>>

\* ------------------------------------------------------------- the system
Next ==
    \/ \E p \in Procs : UploadStart(p)
    \/ \E p \in Procs : UploadWrite(p)
    \/ \E p \in Procs : UploadInsert(p)
    \/ \E p \in Procs : AttachLabel(p)
    \/ \E p \in Procs : AttachLinkExisting(p)
    \/ \E p \in Procs : AttachCreate(p)
    \/ \E p \in Procs : AttachLinkNew(p)
    \/ \E p \in Procs : DetachLabel(p)
    \/ \E p \in Procs : DeleteImage(p)
    \/ \E p \in Procs : DeleteUnlink(p)
    \/ \E p \in Procs : DeleteAnnotations(p)
    \/ \E p \in Procs : DeleteRow(p)
    \/ \E p \in Procs : ListImages(p)

Spec == Init /\ [][Next]_vars

\* ------------------------------------------------------- reading a step
\* A step in which a request arrives, and the request that arrived: it is
\* either answered in the same step (no slot changes) or now occupies a slot.
IsArrival == started' = started + 1

ArrivedReq ==
    IF pc' = pc THEN last'.req
    ELSE req'[CHOOSE p \in Procs : pc'[p] # pc[p]]

AnsweredAtOnce == pc' = pc

PairCount(anns, image_id, label_id) ==
    Cardinality({ i \in 1..Len(anns) : /\ anns[i].image_id = image_id
                                       /\ anns[i].label_id = label_id })

\* ---------------------------------------------------------------- claims
\* C1: in every reachable state the labels table holds at most one row per
\* name, whatever the interleaving of the lookup, create and link statements
\* of concurrent AttachLabel calls.
C1_UniqueLabelNames ==
    \A l1 \in labels, l2 \in labels : l1.name = l2.name => l1 = l2

\* Two AttachLabel calls with different imageIds and the same new name both
\* missed the label at their lookup; one created it, the other's create was
\* refused, and one row carries the name.
C1_Witness ==
    /\ last.req.op = "AttachLabel"
    /\ ~last.loc.found
    /\ last.resp.message = "UNIQUE constraint failed: labels.name"
    /\ \E p \in Procs :
          /\ pc[p] = "att_linknew"
          /\ req[p].labelName = last.req.labelName
          /\ req[p].imageId # last.req.imageId
    /\ Cardinality(SelectLabel(last.req.labelName)) = 1

\* C2: every annotation row references an existing image row and an existing
\* label row.
C2_ReferentialIntegrity ==
    \A i \in 1..Len(annotations) :
        /\ \E im \in images : Num(im.id) = annotations[i].image_id
        /\ \E l \in labels : l.id = annotations[i].label_id

\* C3: no (image_id, label_id) pair occurs in two annotation rows, and every
\* AttachLabel call that found its label at the lookup answers success and
\* leaves exactly one row for its pair.
C3_NoDuplicatePairs ==
    \A i \in 1..Len(annotations), j \in 1..Len(annotations) :
        (/\ annotations[i].image_id = annotations[j].image_id
         /\ annotations[i].label_id = annotations[j].label_id) => i = j

C3_LinkExistingStep ==
    \A p \in Procs :
        (pc[p] = "att_link" /\ pc'[p] # "att_link") =>
            /\ pc'[p] = "idle"
            /\ last'.resp.status = 200
            /\ PairCount(annotations', loc[p].imageId, loc[p].label_id) = 1

C3_AttachIdempotent ==
    []C3_NoDuplicatePairs /\ [][C3_LinkExistingStep]_vars

\* A repeated AttachLabel on an existing label: the pair was already linked,
\* the call changed no row and answered success.
C3_Witness ==
    /\ last.req.op = "AttachLabel"
    /\ last.loc.found
    /\ last.loc.changes = 0
    /\ last.resp.status = 200
    /\ PairCount(annotations, last.loc.imageId, last.loc.label_id) = 1

\* C4: DetachLabel with numeric non-zero ids answers success whether or not
\* a row matched, leaves no row for the pair, and repeating it changes
\* nothing more.
NumericNonZero(v) == v.t = "number" /\ v.n # 0

C4_DetachStep ==
    (/\ IsArrival
     /\ ArrivedReq.op = "DetachLabel"
     /\ NumericNonZero(ArrivedReq.imageId)
     /\ NumericNonZero(ArrivedReq.labelId)) =>
        /\ AnsweredAtOnce
        /\ last'.resp.status = 200
        /\ \A i \in 1..Len(annotations') :
              ~(/\ annotations'[i].image_id = ArrivedReq.imageId
                /\ Num(annotations'[i].label_id) = ArrivedReq.labelId)
        /\ DeletePair(annotations', ArrivedReq.imageId, ArrivedReq.labelId)
              = annotations'

C4_DetachIdempotent == [][C4_DetachStep]_vars

\* The second of two DetachLabel calls on a pair that was linked once: it
\* removed no row and answered success.
C4_Witness ==
    /\ last.req.op = "DetachLabel"
    /\ last.resp.status = 200
    /\ last.loc.changes = 0
    /\ started = 3
    /\ seqAnnotations = 1
    /\ annotations = <<>>

\* C5: every upload that passes validation gets a filename distinct from
\* that of every other upload and is answered with its imageId.
PassesValidation(file) ==
    /\ file.present
    /\ file.mimetype \in {"image/jpeg", "image/png", "image/jpg"}
    /\ file.size <= FileSizeLimit

C5_DistinctFilenames ==
    /\ \A p \in Procs, q \in Procs :
          (/\ p # q
           /\ pc[p] \in {"up_write", "up_insert"}
           /\ pc[q] \in {"up_write", "up_insert"}) =>
              loc[p].filename # loc[q].filename
    /\ (last.req.op = "Upload" /\ PassesValidation(last.req.file)) =>
          last.resp.status = 201

\* C6: DeleteImage for an id with no image row answers 404 in the step of
\* its lookup, attempts no file removal, and leaves the three tables and the
\* uploads directory as they were.
C6_NotFoundStep ==
    (/\ IsArrival
     /\ ArrivedReq.op = "DeleteImage"
     /\ ~IsNaN(ParseInt(ArrivedReq.id))
     /\ SelectImage(ParseInt(ArrivedReq.id)) = {}) =>
        /\ AnsweredAtOnce
        /\ last'.resp.status = 404
        /\ UNCHANGED <<store, files>>

C6_DeleteMissingNoMutation == [][C6_NotFoundStep]_vars

\* A DeleteImage for an id with no image row has been answered.
C6_Witness ==
    /\ last.req.op = "DeleteImage"
    /\ ~last.loc.found
    /\ last.resp.status = 404

\* C7: a failed file removal does not abort DeleteImage.  After the unlink
\* step, failed or not, comes the deletion of the annotation rows of the
\* image, then the deletion of the image row and the success response; the
\* two deletions are reached only in that order, after the unlink step.
C7_DeleteSteps ==
    \A p \in Procs :
        /\ (pc[p] = "del_unlink" /\ pc'[p] # "del_unlink") =>
              pc'[p] = "del_anns"
        /\ (pc[p] = "del_anns" /\ pc'[p] # "del_anns") =>
              /\ pc'[p] = "del_image"
              /\ \A i \in 1..Len(annotations') :
                    annotations'[i].image_id # loc[p].imageId
        /\ (pc[p] = "del_image" /\ pc'[p] # "del_image") =>
              /\ pc'[p] = "idle"
              /\ last'.resp.status = 200
              /\ SelectImage(loc[p].imageId)' = {}
        /\ (pc'[p] = "del_anns" /\ pc[p] # "del_anns") => pc[p] = "del_unlink"
        /\ (pc'[p] = "del_image" /\ pc[p] # "del_image") => pc[p] = "del_anns"
        /\ (pc'[p] = "del_unlink" /\ pc[p] # "del_unlink") =>
              /\ pc[p] = "idle"
              /\ SelectImage(loc'[p].imageId) # {}

C7_DeleteBestEffort == [][C7_DeleteSteps]_vars

\* A DeleteImage whose unlink failed on a file that is there was answered
\* success; the image row is gone and the file is still on disk.
C7_Witness ==
    /\ last.req.op = "DeleteImage"
    /\ last.loc.unlinkErr
    /\ last.resp.status = 200
    /\ SelectImage(last.loc.imageId) = {}
    /\ FileAt(last.loc.file_path) # {}

\* C8 as stated: once DeleteImage answered success for an uploaded image, no
\* later listing has an entry for it and the file stored for it is gone.
ListedIds(rows) == { r.id : r \in rows }

FileStored(d) == \E f \in files : f.path = d.file_path /\ f.blob = d.blob

C8_NotListed(d) ==
    /\ d.imageId \notin ListedIds(ListImagesWithLabels)
    /\ last.req.op = "ListImages" => d.imageId \notin ListedIds(last.resp.rows)

C8_DeletedGoneAndFileGone ==
    \A d \in deletedOk : C8_NotListed(d) /\ ~FileStored(d)

\* C8 as amended: no later listing has an entry for the image, and the file
\* stored for it is gone whenever its removal succeeded.
C8_DeletedGoneFileIfUnlinked ==
    \A d \in deletedOk : C8_NotListed(d) /\ (d.unlinked => ~FileStored(d))

\* A listing answered after a successful DeleteImage whose unlink succeeded.
C8_Witness ==
    /\ last.req.op = "ListImages"
    /\ \E d \in deletedOk : d.unlinked /\ d.imageId \notin ListedIds(last.resp.rows)

\* C9: for every listed image, splitting labels and labelIds on the
\* delimiter gives arrays of equal length, and element i of labelIds is the
\* id of the label named by element i of labels.
C9_RowAligned(row) ==
    LET names == IF row.labels.null THEN <<>> ELSE Split(row.labels.s, Delimiter)
        ids == IF row.labelIds.null THEN <<>> ELSE Split(row.labelIds.s, Delimiter)
    IN /\ Len(names) = Len(ids)
       /\ \A i \in 1..Len(names) :
             \E l \in labels : ToStr(l.id) = ids[i] /\ l.name = names[i]

C9_PositionalCorrespondence ==
    \A row \in ListImagesWithLabels : C9_RowAligned(row)

\* C10: an AttachLabel whose imageId is not a positive integer, or whose
\* labelName is empty or longer than 50 characters, is answered with a
\* validation error and goes no further.
PositiveInteger(v) == v.t = "number" /\ v.d = 1 /\ v.n > 0

C10_ValidInput(q) ==
    /\ PositiveInteger(q.imageId)
    /\ q.labelName # <<>>
    /\ Len(q.labelName) <= 50

C10_InvalidRejected ==
    /\ \A p \in Procs :
          (pc[p] # "idle" /\ req[p].op = "AttachLabel") => C10_ValidInput(req[p])
    /\ (last.req.op = "AttachLabel" /\ ~C10_ValidInput(last.req)) =>
          last.resp.status = 400

\* C11: an upload whose declared media type is not an allowed image type is
\* answered with an error in the step of the file filter; no image row is
\* inserted and no file is written, then or later, for that request.
DisallowedType(file) ==
    file.present /\ file.mimetype \notin {"image/jpeg", "image/png", "image/jpg"}

C11_RejectStep ==
    (IsArrival /\ ArrivedReq.op = "Upload" /\ DisallowedType(ArrivedReq.file)) =>
        /\ AnsweredAtOnce
        /\ last'.resp.status >= 400
        /\ last'.resp.imageId = 0
        /\ UNCHANGED <<store, files>>

MsgCreated == "New label created and linked to the image!"
MsgAdded == "Label added (or already linked to the image)!"

\* this.lastID of the label INSERT is set exactly when the call inserted a row.
InsertedLabel(l) == l.lastID # 0

C12_MessageTellsBranch ==
    last.req.op = "AttachLabel" =>
        /\ (last.resp.message = MsgCreated) <=> InsertedLabel(last.loc)
        /\ (last.resp.message = MsgAdded) <=>
              (last.loc.found /\ ~InsertedLabel(last.loc))

\* C13: when a call that missed the label at its lookup reaches its create
\* after another call has created the label, the create fails: the call is
\* answered 400, is over (no second lookup, no link) and inserts no label and
\* no annotation row.  A create that finds the name free inserts the one row
\* with that name and goes on to link; after its link step its pair is in
\* the annotations table exactly once.
C13_CreateStep ==
    \A p \in Procs :
        /\ (pc[p] = "att_create" /\ pc'[p] # "att_create") =>
              IF SelectLabel(req[p].labelName) # {}
              THEN /\ pc'[p] = "idle"
                   /\ last'.req = req[p]
                   /\ last'.resp.status = 400
                   /\ labels' = labels
                   /\ annotations' = annotations
              ELSE /\ pc'[p] = "att_linknew"
                   /\ Cardinality(labels') = Cardinality(labels) + 1
                   /\ Cardinality(SelectLabel(req[p].labelName)') = 1
                   /\ annotations' = annotations
        /\ (pc[p] = "att_linknew" /\ pc'[p] # "att_linknew") =>
              /\ pc'[p] = "idle"
              /\ PairCount(annotations', loc[p].imageId, loc[p].lastID) = 1

C13_RaceOutcome == [][C13_CreateStep]_vars

\* Both calls of the race are over: the loser, for image 2, was answered 400
\* after missing the label at its lookup; the label exists once, image 1
\* carries it and image 2 does not.
C13_Witness ==
    /\ last.req.op = "AttachLabel"
    /\ last.req.imageId = Num(2)
    /\ ~last.loc.found
    /\ last.resp.status = 400
    /\ \A p \in Procs : pc[p] = "idle"
    /\ \E l \in labels :
          /\ l.name = last.req.labelName
          /\ Cardinality(SelectLabel(l.name)) = 1
          /\ PairCount(annotations, Num(1), l.id) = 1
          /\ PairCount(annotations, Num(2), l.id) = 0

\* C14: in the state right after an upload succeeds, the listing has exactly
\* one entry for the new image id, and its labels and labelIds are null.
C14_UploadedStep ==
    \A p \in Procs :
        (pc[p] = "up_insert" /\ pc'[p] = "idle" /\ last'.resp.status = 201) =>
            LET entries == {r \in ListImagesWithLabels' : r.id = last'.resp.imageId}
            IN /\ Cardinality(entries) = 1
               /\ \A r \in entries : r.labels.null /\ r.labelIds.null

C14_NewImageUnlabelled == [][C14_UploadedStep]_vars

=============================================================================
